---- MODULE Spec2Model ----
(***************************************************************************)
(* Autotuned kernel selection of burn-cubecl: the matmul, reduce, sum and  *)
(* conv-transpose2d entry points, their key builders, their candidate      *)
(* registries and the tuner cache they share per operation family.         *)
(***************************************************************************)
EXTENDS Integers, Sequences, FiniteSets, TLC

VARIABLES
    family,   \* the operation family the callers invoke in this run
    mode,     \* "seq": one caller, calls one after the other; "race": two callers
    cache,    \* the static TUNERs: <<tuner, tune id, key>> -> cached decision
    stack,    \* per caller thread: the call frames, innermost last
    calls,    \* number of top-level calls started
    passes    \* <<op, device, key>> -> the benchmarking passes started for it (n),
              \* the first decision one of them recorded (first) and the passes
              \* started after that (late)

vars == <<family, mode, cache, stack, calls, passes>>

(***************************************************************************)
(* Bounds                                                                  *)
(***************************************************************************)
MaxCalls == 2          \* top-level calls per run
MaxTime == 2           \* measured times are 1..MaxTime
MaxOk == 2             \* candidates that may succeed within one benchmarking pass
MaxOkRace == 1         \* the same, for each of two racing passes
MaxCubeCount == 2      \* the (mocked) device maximum of cubes per grid dimension

Threads == {1, 2}
Devices == {"d1", "d2"}
Ops == {"matmul", "reduce", "sum", "conv_transpose2d"}
Times == 1..MaxTime

(***************************************************************************)
(* Tensors and anchoring                                                   *)
(***************************************************************************)
\* a tensor the caller owns: its buffer is the caller's
Tensor(dims, strides) ==
    [dtype |-> "F32", dims |-> dims, strides |-> strides, buf |-> "caller"]

RECURSIVE SeqProduct(_)
SeqProduct(s) == IF s = <<>> THEN 1 ELSE Head(s) * SeqProduct(Tail(s))

NumElements(t) == SeqProduct(t.dims)

RECURSIVE Pow2AtLeast(_, _)
Pow2AtLeast(x, p) == IF p >= x THEN p ELSE Pow2AtLeast(x, 2 * p)

\* #[autotune(anchor)]: the field is rounded up to the next power of two
Anchor(x) == Pow2AtLeast(x, 1)

(***************************************************************************)
(* Key builders                                                            *)
(***************************************************************************)
KeyOk(k) == [tag |-> "key", key |-> k]
KeyPanic(msg) == [tag |-> "panic", msg |-> msg]

\* ReduceAutotuneKey::new, generated by the AutotuneKey derive: anchors the
\* three annotated fields
ReduceKeyNew(dtype, shape, stride, outer) ==
    [op |-> "Reduce", dtype |-> dtype, reduce_axis_shape |-> Anchor(shape),
     reduce_axis_stride |-> Anchor(stride), outer_axes_product |-> Anchor(outer)]

RECURSIVE OuterAxesProductInclusive(_, _, _)
OuterAxesProductInclusive(strides, dims, stride) ==
    IF strides = <<>> THEN 1
    ELSE (IF Head(strides) >= stride THEN Head(dims) ELSE 1)
         * OuterAxesProductInclusive(Tail(strides), Tail(dims), stride)

RECURSIVE OuterAxesProduct(_, _, _)
OuterAxesProduct(strides, dims, stride) ==
    IF strides = <<>> THEN 1
    ELSE (IF Head(strides) > stride THEN Head(dims) ELSE 1)
         * OuterAxesProduct(Tail(strides), Tail(dims), stride)

\* the guard of ReduceAutotuneKey::generate
AxisCheck(axis, rank) == axis > rank

\* ReduceAutotuneKey::generate; axis is 0-based as in the source
ReduceGenerate(input, axis) ==
    LET rank == Len(input.dims) IN
    IF AxisCheck(axis, rank) THEN KeyPanic("axis out-of-bound for rank")
    ELSE IF axis >= rank THEN KeyPanic("index out of bounds")  \* dims[axis]
    ELSE LET stride == input.strides[axis + 1] IN
         KeyOk(ReduceKeyNew(input.dtype, input.dims[axis + 1], stride,
                            OuterAxesProduct(input.strides, input.dims, stride)))

\* SumAutotuneKey::generate builds the struct literally
SumGenerate(input) ==
    KeyOk([op |-> "Sum", dtype |-> input.dtype, length |-> NumElements(input)])

\* matmul's create_key (super::key)
MatmulKey(lhs, rhs) ==
    KeyOk([op |-> "Matmul", dtype |-> lhs.dtype, m |-> Anchor(lhs.dims[1]),
           k |-> Anchor(lhs.dims[2]), n |-> Anchor(rhs.dims[2])])

\* ConvTranspose2dAutotuneKey::new: the channel, size and batch fields are anchored
ConvTranspose2dKeyNew(kernel_size, groups, in_channels, out_channels, height, width, batch_size, has_bias, dtype) ==
    [op |-> "ConvTranspose2d", kernel_size |-> kernel_size, groups |-> groups,
     in_channels |-> Anchor(in_channels), out_channels |-> Anchor(out_channels),
     height |-> Anchor(height), width |-> Anchor(width),
     batch_size |-> Anchor(batch_size), has_bias |-> has_bias, dtype |-> dtype]

\* conv_transpose2d's create_key
ConvCreateKey(input, weights, bias, groups) ==
    KeyOk(ConvTranspose2dKeyNew(<<weights.dims[3], weights.dims[4]>>, groups,
                                input.dims[2], weights.dims[1], input.dims[3],
                                input.dims[4], input.dims[1], bias, "F32"))

CreateKey(op, args) ==
    CASE op = "reduce" -> ReduceGenerate(args.input, args.dim)
      [] op = "sum" -> SumGenerate(args.input)
      [] op = "matmul" -> MatmulKey(args.lhs, args.rhs)
      [] OTHER -> ConvCreateKey(args.input, args.weights, args.bias, args.groups)

NoKey == [op |-> "none"]

(***************************************************************************)
(* Synthetic input generators                                              *)
(***************************************************************************)
RECURSIVE ContiguousStrides(_)
ContiguousStrides(dims) ==
    IF dims = <<>> THEN <<>> ELSE <<SeqProduct(Tail(dims))>> \o ContiguousStrides(Tail(dims))

\* random_like_uniform: a new tensor with the shape and strides of t, in a
\* buffer of its own
RandomLikeUniform(t) == [t EXCEPT !.buf = "synthetic(" \o @ \o ")"]

\* random_uniform(shape, device, ..): a new contiguous tensor
RandomUniform(dims) ==
    [dtype |-> "F32", dims |-> dims, strides |-> ContiguousStrides(dims),
     buf |-> "synthetic"]

\* empty_device(client, device, shape): a new, unfilled buffer
EmptyDevice(dims) ==
    [dtype |-> "F32", dims |-> dims, strides |-> ContiguousStrides(dims),
     buf |-> "synthetic"]

\* init_matmul_output: the output the entry point allocates when out is None
InitMatmulOutput(lhs, rhs) ==
    Tensor(<<lhs.dims[1], rhs.dims[2]>>, <<rhs.dims[2], 1>>)

\* the output the caller of autotune_reduce passes: the reduced axis has size 1
ReduceOutput(input, dim) ==
    LET dims == [i \in DOMAIN input.dims |-> IF i = dim + 1 THEN 1 ELSE input.dims[i]]
    IN  Tensor(dims, ContiguousStrides(dims))

MatmulInputGen(key, lhs, rhs, out) ==
    [lhs |-> RandomLikeUniform(lhs), rhs |-> RandomLikeUniform(rhs),
     out |-> EmptyDevice(out.dims)]

ReduceInputGenRealOperands(key, input, output, dim) ==
    [input |-> input, output |-> output, dim |-> dim]

ReduceInputGen(key, input, output, dim) ==
    [input |-> RandomLikeUniform(input), output |-> EmptyDevice(output.dims),
     dim |-> dim]

SumInputGen(key, input) == [input |-> RandomLikeUniform(input)]

\* create_transpose2d_input: the shapes and the bias come from the key; the
\* weights and the bias of the call are not used
CreateTranspose2dInputBiasOfCall(key, input, weights, bias, groups) ==
    [input |-> RandomUniform(<<key.batch_size, key.in_channels, key.height, key.width>>),
     weights |-> RandomUniform(<<key.out_channels, key.in_channels \div key.groups,
                                key.kernel_size[1], key.kernel_size[2]>>),
     bias |-> bias, groups |-> groups]

CreateTranspose2dInput(key, input, weights, bias, groups) ==
    [input |-> RandomUniform(<<key.batch_size, key.in_channels, key.height, key.width>>),
     weights |-> RandomUniform(<<key.out_channels, key.in_channels \div key.groups,
                                key.kernel_size[1], key.kernel_size[2]>>),
     bias |-> key.has_bias, groups |-> groups]

\* the generator the TunableSet of the entry point was built with
InputGen(op, key, args) ==
    CASE op = "reduce" ->
            ReduceInputGen(key, args.input, ReduceOutput(args.input, args.dim), args.dim)
      [] op = "sum" -> SumInputGen(key, args.input)
      [] op = "matmul" ->
            MatmulInputGen(key, args.lhs, args.rhs, InitMatmulOutput(args.lhs, args.rhs))
      [] OTHER ->
            CreateTranspose2dInput(key, args.input, args.weights, args.bias, args.groups)

NoSyn == [generated |-> FALSE]

(***************************************************************************)
(* Candidate registries, in registration order                             *)
(***************************************************************************)
ReduceTunables == <<"reduce", "reduce_shared", "reduce_plane", "reduce_shared_plane">>

SumTunables ==
    <<"sum_chained", "sum_one_shot_1", "sum_one_shot_2", "sum_one_shot_4",
      "sum_one_shot_8", "sum_one_shot_16", "sum_one_shot_32", "sum_one_shot_64">>

MatmulTunables == <<"matmul_tiling2d", "matmul_accelerated", "matmul_simple">>

ConvTunables == <<"conv_transpose2d_direct", "conv_transpose2d_col2im">>

Tunables(op) ==
    CASE op = "reduce" -> ReduceTunables
      [] op = "sum" -> SumTunables
      [] op = "matmul" -> MatmulTunables
      [] OTHER -> ConvTunables

(***************************************************************************)
(* Candidates                                                              *)
(***************************************************************************)
Ok(time) == [tag |-> "ok", time |-> time]
Failed == [tag |-> "failed", time |-> 0]
Declined == [tag |-> "declined", time |-> 0]

BlockSize == 64        \* Tiling2dConfig::default(): block_size_m = block_size_n

CeilDiv(a, b) == (a + b - 1) \div b

\* the launch-geometry check of matmul_tiling2d on the output shape
Tiling2dTooLargeBoth(lhs, rhs) ==
    LET cubes_x == CeilDiv(lhs.dims[1], BlockSize)
        cubes_y == CeilDiv(rhs.dims[2], BlockSize)
    IN  cubes_x > MaxCubeCount /\ cubes_y > MaxCubeCount

Tiling2dTooLarge(lhs, rhs) ==
    LET cubes_x == CeilDiv(lhs.dims[1], BlockSize)
        cubes_y == CeilDiv(rhs.dims[2], BlockSize)
    IN  cubes_x > MaxCubeCount \/ cubes_y > MaxCubeCount

\* what a kernel launch can report; okAllowed caps the successes of one pass
LaunchOutcomes(okAllowed) ==
    {Failed} \cup (IF okAllowed THEN {Ok(time) : time \in Times} ELSE {})

\* the outcomes of running candidate c on operands shaped like args
CandidateOutcomes(c, args, okAllowed) ==
    IF c = "matmul_tiling2d" /\ Tiling2dTooLarge(args.lhs, args.rhs)
    THEN {Declined}
    ELSE LaunchOutcomes(okAllowed)

(***************************************************************************)
(* The tuner                                                               *)
(***************************************************************************)
AllFailed == 0         \* the "all failed" decision; a winner is its registry index
Undecided == -1        \* no decision yet

\* the harness keeps the best candidate so far; a later one replaces it only
\* with a strictly lower time
RECURSIVE FastestLastOnTie(_, _, _)
FastestLastOnTie(log, i, best) ==
    IF i > Len(log) THEN best
    ELSE IF log[i].tag = "ok" /\ (best = AllFailed \/ log[i].time <= log[best].time)
         THEN FastestLastOnTie(log, i + 1, i)
         ELSE FastestLastOnTie(log, i + 1, best)

RECURSIVE Fastest(_, _, _)
Fastest(log, i, best) ==
    IF i > Len(log) THEN best
    ELSE IF log[i].tag = "ok" /\ (best = AllFailed \/ log[i].time < log[best].time)
         THEN Fastest(log, i + 1, i)
         ELSE Fastest(log, i + 1, best)

\* CubeTuneId::new: the identity of the device (and its client)
CubeTuneId(dev) == dev

\* the tune id each entry point passes to execute: that of its input's device
TuneIdShared(f) == CubeTuneId("d1")
TuneIdOf(f) == CubeTuneId(f.dev)

\* `static TUNER`: one tuner per entry point, shared by all its calls
TunerPerCall(f) == <<f.op, f.id>>
TunerOf(f) == <<f.op, 0>>

Entry(f) == <<TunerOf(f), TuneIdOf(f), f.key>>

\* first write wins: an entry that exists is left as it is
CacheWrite(c, e, d, dev) ==
    IF e \in DOMAIN c THEN c ELSE (e :> [dec |-> d, on |-> dev]) @@ c

\* the lookup of execute: any cached decision is a hit
Lookup(c, e) == IF e \in DOMAIN c THEN "hit" ELSE "miss"

\* .expect("All autotuners failed")
ExpectLenient(exec) == [res |-> "ok", why |-> "none"]
Expect(exec) ==
    IF exec = "ok" THEN [res |-> "ok", why |-> "none"]
    ELSE [res |-> "panic", why |-> "All autotuners failed"]

\* matmul_autotune drops the value of execute and returns `output`
MatmulReturn(exec) == [res |-> "ok", why |-> "none"]

Wrapper(op, exec) == IF op = "matmul" THEN MatmulReturn(exec) ELSE Expect(exec)

(***************************************************************************)
(* The strategy dispatcher of matmul                                       *)
(***************************************************************************)
\* the strategies a caller can pass; only matmul's dispatcher is modelled
Strategies(op) == IF op = "matmul" THEN {"Autotune", "Cube"} ELSE {"Autotune"}

\* match strategy: the Cube arm launches, the Autotune arm goes to the tuner
RouteAllTuner(strategy) == "tuner"
Route(strategy) == IF strategy = "Cube" THEN "launch" ELSE "tuner"

\* the Autotune arm: match matmul_autotune(lhs, rhs, out)
MatmulAutotuneArm(r) == IF r.res = "ok" THEN "Ok" ELSE "Err(Unavailable)"

\* the Cube arm: launch_ref(..)?; Ok(out)
MatmulCubeArm(f, outcome) ==
    [f EXCEPT !.pc = "done",
              !.res = IF outcome.tag = "ok" THEN "ok" ELSE "err",
              !.ret = IF outcome.tag = "ok" THEN "Ok" ELSE "Err(launch)",
              !.wrote = IF outcome.tag = "ok" THEN "cube" ELSE "none"]

(***************************************************************************)
(* Call frames                                                             *)
(***************************************************************************)
NewFrame(id, op, dev, args, real) ==
    [id |-> id, op |-> op, dev |-> dev, args |-> args, real |-> real,
     pc |-> "start", key |-> NoKey, hit |-> FALSE, i |-> 0, log |-> <<>>,
     dec |-> Undecided, benched |-> 0, exec |-> "none", res |-> "none",
     why |-> "none", wrote |-> "none", strategy |-> "Autotune", ret |-> "none",
     syn |-> NoSyn]

\* execute has returned: the entry point turns its value into the call's result
Finish(f, exec, wrote) ==
    [f EXCEPT !.pc = "done", !.exec = exec, !.wrote = wrote,
              !.res = Wrapper(f.op, exec).res, !.why = Wrapper(f.op, exec).why,
              !.ret = IF f.op = "matmul" THEN MatmulAutotuneArm(Wrapper(f.op, exec))
                      ELSE "none"]

\* the measurements of the pass are dropped once the winner has run
Dispatched(f, exec, wrote) == Finish([f EXCEPT !.log = <<>>], exec, wrote)

\* a panic unwinds the frame
Unwind(f, why) == [f EXCEPT !.pc = "done", !.res = "panic", !.why = why]

\* sum_chained: kernel::reduce::reduce(input, ReduceStrategy::Autotune) reduces
\* the (one-dimensional) input it was given along axis 0 through
\* autotune_reduce; a benchmark run is given the synthetic input
SumChainedCall(f, real) ==
    NewFrame(f.id, "reduce", f.dev,
             [input |-> IF real THEN f.args.input ELSE f.syn.input, dim |-> 0], real)

Depth(t) == Len(stack[t])
Top(t) == stack[t][Depth(t)]
Parent(t) == stack[t][Depth(t) - 1]
WithTop(t, f) == [stack EXCEPT ![t][Depth(t)] = f]
Push(t, parent, f) == [stack EXCEPT ![t] = Append(SubSeq(stack[t], 1, Depth(t) - 1), parent) \o <<f>>]
PopInto(t, parent) == [stack EXCEPT ![t] = Append(SubSeq(stack[t], 1, Depth(t) - 2), parent)]

OkCount(log) == Cardinality({i \in DOMAIN log : log[i].tag = "ok"})
OkAllowed(log) == OkCount(log) < (IF mode = "race" THEN MaxOkRace ELSE MaxOk)

PassKey(f) == <<f.op, f.dev, f.key>>
CountPass(p, k) ==
    IF k \in DOMAIN p
    THEN [p EXCEPT ![k].n = @ + 1,
                   ![k].late = IF p[k].first = Undecided THEN @ ELSE @ + 1]
    ELSE (k :> [n |-> 1, first |-> Undecided, late |-> 0]) @@ p
NoteDecision(p, k, d) == [p EXCEPT ![k].first = IF @ = Undecided THEN d ELSE @]

(***************************************************************************)
(* Inputs                                                                  *)
(***************************************************************************)
ReduceInputs ==
    {Tensor(<<2, 3>>, <<3, 1>>), Tensor(<<4, 3>>, <<1, 4>>),
     Tensor(<<2, 3, 1>>, <<3, 1, 1>>)}
ReduceAxes == 0..3
SumInputs == {Tensor(<<3>>, <<1>>), Tensor(<<4>>, <<1>>)}
MatmulInputs ==
    {[lhs |-> Tensor(<<64, 8>>, <<8, 1>>), rhs |-> Tensor(<<8, 64>>, <<64, 1>>)],
     [lhs |-> Tensor(<<200, 8>>, <<8, 1>>), rhs |-> Tensor(<<8, 64>>, <<64, 1>>)]}
ConvShapes ==
    {<<Tensor(<<2, 4, 3, 3>>, <<36, 9, 3, 1>>), Tensor(<<4, 2, 2, 2>>, <<8, 4, 2, 1>>)>>,
     <<Tensor(<<2, 4, 4, 4>>, <<64, 16, 4, 1>>), Tensor(<<4, 2, 2, 2>>, <<8, 4, 2, 1>>)>>,
     <<Tensor(<<2, 4, 4, 4>>, <<64, 16, 4, 1>>), Tensor(<<4, 4, 2, 2>>, <<16, 4, 2, 1>>)>>}
ConvInputs ==
    {[input |-> s[1], weights |-> s[2], bias |-> b, groups |-> 1]
     : s \in ConvShapes, b \in BOOLEAN}

ArgsOf(op) ==
    CASE op = "reduce" -> {[input |-> t, dim |-> a] : t \in ReduceInputs, a \in ReduceAxes}
      [] op = "sum" -> {[input |-> t] : t \in SumInputs}
      [] op = "matmul" -> MatmulInputs
      [] OTHER -> ConvInputs

(***************************************************************************)
(* Actions                                                                 *)
(***************************************************************************)
Idle(t) == Depth(t) = 0 \/ (Depth(t) = 1 /\ Top(t).pc = "done")

\* a caller invokes the family with real operands, matmul through its strategy
\* dispatcher; racing callers pass the same operands on the same device
Call(t) ==
    /\ calls < MaxCalls
    /\ Idle(t)
    /\ mode = "seq" => t = 1
    /\ \E dev \in Devices, args \in ArgsOf(family), strategy \in Strategies(family) :
          /\ mode = "race" => \A u \in Threads \ {t} :
                 Depth(u) > 0 => stack[u][1].dev = dev /\ stack[u][1].args = args
          /\ LET f == [NewFrame(calls + 1, family, dev, args, TRUE)
                         EXCEPT !.strategy = strategy]
             IN  IF Route(strategy) = "launch"
                 THEN \E outcome \in LaunchOutcomes(TRUE) :
                          stack' = [stack EXCEPT ![t] = <<MatmulCubeArm(f, outcome)>>]
                 ELSE stack' = [stack EXCEPT ![t] = <<f>>]
    /\ calls' = calls + 1
    /\ UNCHANGED <<family, mode, cache, passes>>

\* TUNER.execute: build the key, look the entry up
Execute(t) ==
    /\ Depth(t) > 0
    /\ Top(t).pc = "start"
    /\ LET f == Top(t)
           kr == CreateKey(f.op, f.args)
       IN  IF kr.tag = "panic"
           THEN /\ stack' = WithTop(t, Unwind(f, kr.msg))
                /\ UNCHANGED passes
           ELSE LET g == [f EXCEPT !.key = kr.key] IN
                IF Lookup(cache, Entry(g)) = "hit"
                THEN /\ stack' = WithTop(t,
                          IF cache[Entry(g)].dec = AllFailed
                          THEN Finish([g EXCEPT !.hit = TRUE], "AllCandidatesFailed", "none")
                          ELSE [g EXCEPT !.hit = TRUE, !.pc = "dispatch"])
                     /\ UNCHANGED passes
                ELSE /\ stack' = WithTop(t, [g EXCEPT !.pc = "bench", !.i = 1, !.benched = @ + 1])
                     /\ passes' = CountPass(passes, PassKey(g))
    /\ UNCHANGED <<family, mode, cache, calls>>

\* the log of the pass grows by one outcome; after the last candidate the
\* pass is over
LoggedStopAtFirstOk(f, outcome) ==
    [f EXCEPT !.log = Append(@, outcome), !.i = @ + 1,
              !.pc = IF f.i = Len(Tunables(f.op)) \/ outcome.tag = "ok"
                     THEN "write" ELSE "bench"]

Logged(f, outcome) ==
    [f EXCEPT !.log = Append(@, outcome), !.i = @ + 1,
              !.pc = IF f.i = Len(Tunables(f.op)) THEN "write" ELSE "bench"]

\* the harness generates synthetic operands and runs the next candidate on them
Bench(t) ==
    /\ Depth(t) > 0
    /\ Top(t).pc = "bench"
    /\ LET f == [Top(t) EXCEPT !.syn = InputGen(Top(t).op, Top(t).key, Top(t).args)]
           c == Tunables(f.op)[f.i]
       IN  IF c = "sum_chained"
           THEN \/ stack' = Push(t, [f EXCEPT !.pc = "bench_wait"], SumChainedCall(f, FALSE))
                \/ stack' = WithTop(t, Logged(f, Failed))
           ELSE \E outcome \in CandidateOutcomes(c, f.args, OkAllowed(f.log)) :
                    stack' = WithTop(t, Logged(f, outcome))
    /\ UNCHANGED <<family, mode, cache, calls, passes>>

\* the nested reduce of sum_chained returns into the benchmarking pass
BenchReturn(t) ==
    /\ Depth(t) > 1
    /\ Top(t).pc = "done"
    /\ Parent(t).pc = "bench_wait"
    /\ LET n == Top(t)
           f == Parent(t)
       IN  IF n.res = "panic"
           THEN stack' = PopInto(t, Unwind(f, n.why))
           ELSE \E time \in Times : stack' = PopInto(t, Logged(f, Ok(time)))
    /\ UNCHANGED <<family, mode, cache, calls, passes>>

\* the pass is over: the decision is recorded
Record(t) ==
    /\ Depth(t) > 0
    /\ Top(t).pc = "write"
    /\ LET f == Top(t)
           d == Fastest(f.log, 1, AllFailed)
           c == CacheWrite(cache, Entry(f), d, f.dev)
       IN  /\ cache' = c
           /\ stack' = WithTop(t,
                  IF c[Entry(f)].dec = AllFailed
                  THEN Finish([f EXCEPT !.dec = d], "AllCandidatesFailed", "none")
                  ELSE [f EXCEPT !.dec = d, !.pc = "dispatch"])
           /\ passes' = NoteDecision(passes, PassKey(f), d)
    /\ UNCHANGED <<family, mode, calls>>

\* the cached winner runs on the operands of the call
Dispatch(t) ==
    /\ Depth(t) > 0
    /\ Top(t).pc = "dispatch"
    /\ LET f == Top(t)
           c == Tunables(f.op)[cache[Entry(f)].dec]
       IN  IF c = "sum_chained"
           THEN \/ stack' = Push(t, [f EXCEPT !.pc = "dispatch_wait"], SumChainedCall(f, f.real))
                \/ stack' = WithTop(t, Dispatched(f, "CandidateError", "none"))
           ELSE \E outcome \in CandidateOutcomes(c, f.args, TRUE) :
                    stack' = WithTop(t,
                        IF outcome.tag = "ok" THEN Dispatched(f, "ok", c)
                        ELSE Dispatched(f, "CandidateError", "none"))
    /\ UNCHANGED <<family, mode, cache, calls, passes>>

\* the nested reduce of a dispatched sum_chained returns
DispatchReturn(t) ==
    /\ Depth(t) > 1
    /\ Top(t).pc = "done"
    /\ Parent(t).pc = "dispatch_wait"
    /\ LET n == Top(t)
           f == Parent(t)
       IN  stack' = PopInto(t,
               IF n.res = "panic" THEN Unwind(f, n.why)
               ELSE Dispatched(f, "ok", "sum_chained"))
    /\ UNCHANGED <<family, mode, cache, calls, passes>>

Step(t) ==
    \/ Call(t)
    \/ Execute(t)
    \/ Bench(t)
    \/ BenchReturn(t)
    \/ Record(t)
    \/ Dispatch(t)
    \/ DispatchReturn(t)

Next == \E t \in Threads : Step(t)

InitCommon ==
    /\ family \in Ops
    /\ cache = <<>>
    /\ stack = [t \in Threads |-> <<>>]
    /\ calls = 0
    /\ passes = <<>>

Init == InitCommon /\ mode = "seq"
InitRace == InitCommon /\ mode = "race"

\* calls made one after the other
Spec == Init /\ [][Next]_vars
\* two callers racing
SpecRace == InitRace /\ [][Next]_vars

(***************************************************************************)
(* Properties                                                              *)
(***************************************************************************)
Frames == UNION {{stack[t][i] : i \in 1..Depth(t)} : t \in Threads}
TopFrames == {stack[t][1] : t \in {u \in Threads : Depth(u) > 0}}
Keyed == {f \in Frames : f.key # NoKey}
OkIn(log) == {i \in DOMAIN log : log[i].tag = "ok"}
\* the frames whose benchmarking pass has recorded its decision
Recorded == {f \in Keyed : f.dec # Undecided /\ Len(f.log) = Len(Tunables(f.op))}
Rank(t) == Len(t.dims)

\* C1: with calls made one after the other, every (operation, device, key)
\* gets at most one benchmarking pass; the call that misses runs one pass over
\* the whole registry, and a call that hits runs no candidate on synthetic
\* operands and has its operands written by the winner the first pass recorded.
C1_OnePassThenReuse ==
    /\ \A k \in DOMAIN passes : passes[k].n = 1
    /\ \A f \in Keyed :
          /\ f.hit => f.benched = 0 /\ f.log = <<>> /\ f.dec = Undecided
          /\ ~f.hit => f.benched = 1
          /\ ~f.hit /\ f.pc \in {"write", "dispatch", "dispatch_wait"}
                => Len(f.log) = Len(Tunables(f.op))
          /\ f.pc = "done" /\ f.exec = "ok"
                => /\ passes[PassKey(f)].first >= 1
                   /\ f.wrote = Tunables(f.op)[passes[PassKey(f)].first]

C1_Witness ==
    \E f \in TopFrames : f.hit /\ f.pc = "done" /\ f.exec = "ok" /\ f.id = 2

\* C2: when two callers race on the same (key, device), the tuner holds one
\* entry for it, the entry keeps the decision that was recorded first, no
\* caller runs more than one pass and none starts a pass once the decision is
\* recorded, and every racer that completes is served by the winner of that
\* entry.
C2_RaceConverges ==
    /\ \A e1, e2 \in DOMAIN cache :
          e1[1][1] = e2[1][1] /\ e1[2] = e2[2] /\ e1[3] = e2[3] => e1 = e2
    /\ \A e \in DOMAIN cache :
          cache[e].dec = passes[<<e[1][1], cache[e].on, e[3]>>].first
    /\ \A k \in DOMAIN passes : passes[k].late = 0
    /\ \A f \in Keyed :
          /\ f.benched <= 1
          /\ f.pc = "done" /\ f.exec = "ok"
                => f.wrote = Tunables(f.op)[passes[PassKey(f)].first]

C2_Witness ==
    \E f, g \in TopFrames :
        /\ f.id # g.id /\ f.key = g.key /\ f.dev = g.dev
        /\ f.benched = 1 /\ g.benched = 1
        /\ f.pc = "done" /\ g.pc = "done" /\ f.exec = "ok" /\ g.exec = "ok"
        /\ f.dec # g.dec /\ f.dec >= 1 /\ g.dec >= 1

\* C3: an entry is stored under the identity of the device its pass ran on; a
\* call only looks up, dispatches from or records into an entry of its own
\* device, and each device a key was used on got its own pass.
C3_DevicePartition ==
    /\ \A e \in DOMAIN cache : e[2] = CubeTuneId(cache[e].on)
    /\ \A f \in Keyed :
          /\ PassKey(f) \in DOMAIN passes
          /\ Entry(f) \in DOMAIN cache => cache[Entry(f)].on = f.dev

C3_Witness ==
    \E e1, e2 \in DOMAIN cache :
        /\ e1[1] = e2[1] /\ e1[3] = e2[3] /\ e1[2] # e2[2]
        /\ cache[e1].on # cache[e2].on
        /\ passes[<<e1[1][1], "d1", e1[3]>>].n = 1
        /\ passes[<<e1[1][1], "d2", e1[3]>>].n = 1

\* C4: a call under the Autotune strategy that returns normally returns an
\* output the winning candidate wrote from the caller's operands.
C4_OutputWrittenOrFails ==
    \A f \in TopFrames : f.pc = "done" /\ f.res = "ok" => f.wrote # "none"

\* C5: a pass in which every candidate declined or failed makes execute fail
\* with AllCandidatesFailed, which the entry points that unwrap the value turn
\* into a panic, and the entry records no winner.
C5_AllFailedSurfaces ==
    \A f \in Recorded :
        OkIn(f.log) = {}
            => /\ f.dec = AllFailed
               /\ f.pc = "done"
               /\ f.exec = "AllCandidatesFailed"
               /\ f.wrote = "none"
               /\ f.op # "matmul" => f.res = "panic"
               /\ cache[Entry(f)].dec = AllFailed

C5_Witness ==
    \E f \in TopFrames :
        /\ f \in Recorded /\ OkIn(f.log) = {} /\ f.op = "reduce"
        /\ f.exec = "AllCandidatesFailed"

\* C6: no failure of a candidate leaves the harness: a pass that was started
\* runs to its decision; if some candidate succeeded in it, whatever the
\* others did, the decision is a candidate that succeeded and execute does
\* not fail with AllCandidatesFailed.
C6_PartialFailureTolerated ==
    /\ \A f \in Recorded :
          OkIn(f.log) # {}
              => /\ f.dec \in OkIn(f.log)
                 /\ cache[Entry(f)].dec = f.dec
                 /\ f.exec # "AllCandidatesFailed"
    /\ \A f \in Keyed :
          /\ f.dec >= 1 => f.exec # "AllCandidatesFailed"
          /\ f.benched = 1 /\ f.pc = "done" => f.dec # Undecided

\* C7: a Reduce key for an axis the input does not have is refused by the
\* axis check of the key builder, before any operand is generated or any
\* candidate runs.
C7_AxisCheckRejects ==
    \A f \in Frames :
        f.op = "reduce" /\ f.pc # "start" /\ f.args.dim >= Rank(f.args.input)
            => /\ f.pc = "done" /\ f.res = "panic"
               /\ f.why = "axis out-of-bound for rank"
               /\ f.benched = 0 /\ f.log = <<>> /\ f.key = NoKey

\* C8: Sum inputs of one dtype whose element counts fall in the same anchor
\* bucket get the same key, so one (device, bucket) has one benchmarking pass.
C8_SumBucketShared ==
    /\ \A f \in Keyed :
          f.op = "sum" => f.key.length = Anchor(NumElements(f.args.input))
    /\ \A k1, k2 \in DOMAIN passes :
          /\ k1[1] = "sum" /\ k2[1] = "sum" /\ k1[2] = k2[2]
          /\ k1[3].dtype = k2[3].dtype
          /\ Anchor(k1[3].length) = Anchor(k2[3].length)
          => k1 = k2

\* C9: the decision of a pass is the successful candidate of lowest time, the
\* first registered among those of equal lowest time, and it is AllFailed only
\* when no candidate succeeded.
C9_LowestTimeFirstRegistered ==
    \A f \in Recorded :
        /\ f.dec = AllFailed <=> OkIn(f.log) = {}
        /\ f.dec # AllFailed
              => /\ f.dec \in OkIn(f.log)
                 /\ \A j \in OkIn(f.log) :
                       /\ f.log[f.dec].time <= f.log[j].time
                       /\ f.log[j].time = f.log[f.dec].time => f.dec <= j
        /\ cache[Entry(f)].dec = f.dec

C9_Witness ==
    \E f \in Recorded :
        \E i, j \in OkIn(f.log) :
            /\ i < j /\ f.log[i].time = f.log[j].time
            /\ f.log[1].tag # "ok"
            /\ f.dec = i /\ cache[Entry(f)].dec = i

\* C10: once a pass has recorded AllFailed for a (key, device), a later
\* execute for it fails at the lookup, runs nothing, and the entry stays
\* AllFailed with no further pass.
C10_AllFailedTerminal ==
    /\ \A k \in DOMAIN passes : passes[k].first = AllFailed => passes[k].late = 0
    /\ \A e \in DOMAIN cache :
          passes[<<e[1][1], cache[e].on, e[3]>>].first = AllFailed
              => cache[e].dec = AllFailed
    /\ \A f \in Keyed :
          f.pc # "start" /\ passes[PassKey(f)].first = AllFailed /\ f.dec = Undecided
              => /\ f.hit /\ f.pc = "done" /\ f.exec = "AllCandidatesFailed"
                 /\ f.benched = 0 /\ f.log = <<>> /\ f.wrote = "none"
                 /\ f.op # "matmul" => f.res = "panic"

C10_Witness ==
    \E f \in TopFrames :
        /\ f.hit /\ f.pc = "done" /\ f.exec = "AllCandidatesFailed"
        /\ f.res = "panic" /\ f.id = 2

\* C11: a matmul call with MatmulStrategy::Cube is one direct launch on the
\* caller's operands: the step that makes the call leaves the tuner cache and
\* the benchmarking passes as they were, builds no key, looks nothing up, runs
\* no candidate on synthetic operands and returns at once; a frame that has
\* reached the tuner was called with MatmulStrategy::Autotune.
C11_CubeBypassesTuner ==
    [][\A t \in Threads :
          /\ (stack'[t] # stack[t] /\ Len(stack'[t]) > 0
                  /\ stack'[t][1].strategy = "Cube")
                => /\ cache' = cache
                   /\ passes' = passes
                   /\ Len(stack'[t]) = 1
                   /\ stack'[t][1].pc = "done"
                   /\ stack'[t][1].key = NoKey
                   /\ ~stack'[t][1].hit
                   /\ stack'[t][1].benched = 0
                   /\ stack'[t][1].log = <<>>
                   /\ stack'[t][1].syn = NoSyn
                   /\ stack'[t][1].exec = "none"
                   /\ stack'[t][1].wrote \in {"cube", "none"}
                   /\ stack'[t][1].ret \in {"Ok", "Err(launch)"}
          /\ \A i \in 1..Len(stack'[t]) :
                stack'[t][i].pc \notin {"start", "done"} \/ stack'[t][i].key # NoKey
                    => stack'[t][i].strategy = "Autotune"
      ]_vars

C11_Witness ==
    \E f \in TopFrames :
        /\ f.op = "matmul" /\ f.strategy = "Cube" /\ f.id = 2
        /\ f.pc = "done" /\ f.ret = "Ok" /\ f.wrote = "cube"
        /\ \E e \in DOMAIN cache : e[1][1] = "matmul" /\ cache[e].dec >= 1

\* C12: the cache changes only in the step that ends a benchmarking pass,
\* when the log of the pass holds one outcome for every registered candidate
\* and nothing has been dispatched yet, and the step adds the entry of that
\* pass and no other; candidates run in registration order (the next one to
\* run is the one after those already logged), so a success before the last
\* candidate writes nothing; a call dispatches its operands, or has had them
\* written, only when the entry for its key exists.
C12_WriteAfterAllCandidates ==
    [][/\ cache' # cache
            => \E t \in Threads :
                  /\ Depth(t) > 0
                  /\ Top(t).pc = "write"
                  /\ Len(Top(t).log) = Len(Tunables(Top(t).op))
                  /\ Top(t).wrote = "none"
                  /\ DOMAIN cache' = DOMAIN cache \cup {Entry(Top(t))}
                  /\ \A e \in DOMAIN cache : cache'[e] = cache[e]
       /\ \A t \in Threads : \A i \in 1..Len(stack'[t]) :
             LET f == stack'[t][i] IN
             /\ f.pc \in {"bench", "bench_wait"}
                   => /\ f.i = Len(f.log) + 1
                      /\ f.i <= Len(Tunables(f.op))
                      /\ f.wrote = "none"
             /\ f.key # NoKey /\ (f.pc \in {"dispatch", "dispatch_wait"} \/ f.wrote # "none")
                   => <<TunerOf(f), TuneIdOf(f), f.key>> \in DOMAIN cache'
      ]_vars

C12_Witness ==
    \E f \in TopFrames :
        /\ f.op = "sum" /\ f.benched = 1 /\ f.pc = "dispatch"
        /\ Len(f.log) = Len(SumTunables)
        /\ f.log[1].tag = "ok" /\ f.log[Len(SumTunables)].tag = "ok"
        /\ Entry(f) \in DOMAIN cache /\ cache[Entry(f)].dec \in OkIn(f.log)

\* the product of the sizes of the axes in S
RECURSIVE ShapeProduct(_, _)
ShapeProduct(S, dims) ==
    IF S = {} THEN 1
    ELSE LET a == CHOOSE x \in S : TRUE IN dims[a] * ShapeProduct(S \ {a}, dims)

\* the axes (1-based) of t whose stride is strictly greater than that of axis a
OuterAxes(t, a) == {j \in DOMAIN t.strides : t.strides[j] > t.strides[a]}

\* C13: the key built for a valid axis holds the dtype of the input, the
\* anchored size of the reduced axis, the anchored stride of the reduced axis
\* and the anchored product of the sizes of exactly the axes whose stride is
\* strictly greater than the stride of the reduced axis: the reduced axis and
\* the axes of equal or smaller stride do not count, and the product is 1
\* (anchored) when there is no such axis.
C13_ReduceKeyContents ==
    \A f \in Keyed :
        f.op = "reduce"
            => LET t == f.args.input
                   a == f.args.dim + 1
               IN  /\ f.args.dim < Rank(t)
                   /\ a \notin OuterAxes(t, a)
                   /\ DOMAIN f.key = {"op", "dtype", "reduce_axis_shape",
                                      "reduce_axis_stride", "outer_axes_product"}
                   /\ f.key.op = "Reduce"
                   /\ f.key.dtype = t.dtype
                   /\ f.key.reduce_axis_shape = Anchor(t.dims[a])
                   /\ f.key.reduce_axis_stride = Anchor(t.strides[a])
                   /\ f.key.outer_axes_product = Anchor(ShapeProduct(OuterAxes(t, a), t.dims))
                   /\ OuterAxes(t, a) = {} => f.key.outer_axes_product = Anchor(1)

C13_Witness ==
    \E f \in Keyed :
        /\ f.op = "reduce" /\ Rank(f.args.input) = 3 /\ f.args.dim = 1
        /\ OuterAxes(f.args.input, 2) = {1}
        /\ f.args.input.strides[3] = f.args.input.strides[2]
        /\ f.key.outer_axes_product = 2 /\ f.key.reduce_axis_shape = 4

\* the conv-transpose2d frames whose pass has generated synthetic operands
ConvBenched == {f \in Keyed : f.op = "conv_transpose2d" /\ f.syn # NoSyn}

\* C14: the synthetic input and the synthetic weights generated from the key
\* of a conv-transpose2d call have the shapes of the input and the weights of
\* that call.
C14_ConvSyntheticShapes ==
    \A f \in ConvBenched :
        /\ f.syn.input.dims = f.args.input.dims
        /\ f.syn.weights.dims = f.args.weights.dims

\* the tensors a benchmark run of frame f was given
SynTensors(f) ==
    CASE f.syn = NoSyn -> {}
      [] f.op = "reduce" -> {f.syn.input, f.syn.output}
      [] f.op = "sum" -> {f.syn.input}
      [] f.op = "matmul" -> {f.syn.lhs, f.syn.rhs, f.syn.out}
      [] OTHER -> {f.syn.input, f.syn.weights}

\* the buffers the generators allocate: new ones, and copies of the shape of a
\* caller's tensor or (in a nested call) of a synthetic one
SyntheticBufs == {"synthetic", "synthetic(caller)", "synthetic(synthetic(caller))"}

\* the tensors the caller passed in
ArgTensors(f) ==
    CASE f.op \in {"reduce", "sum"} -> {f.args.input}
      [] f.op = "matmul" -> {f.args.lhs, f.args.rhs}
      [] OTHER -> {f.args.input, f.args.weights}

\* C15: every benchmark run is given tensors the input generator allocated,
\* the output buffer included, and none of the caller's; while a pass is
\* running nothing has been written for the caller, and the call a
\* benchmarked candidate makes in turn (sum_chained) works on synthetic
\* operands too; the caller's output is written only by the dispatch that
\* follows the recorded decision.
C15_BenchmarkOnSyntheticOnly ==
    /\ \A f \in Frames :
          /\ \A x \in SynTensors(f) : x.buf \in SyntheticBufs
          /\ SynTensors(f) \cap ArgTensors(f) = {}
          /\ f.pc \in {"bench", "bench_wait", "write"} => f.wrote = "none"
          /\ f.pc \in {"bench_wait", "write"} => f.syn # NoSyn
          /\ f.real => \A x \in ArgTensors(f) : x.buf = "caller"
          /\ f.wrote \notin {"none", "cube"}
                => /\ f.pc = "done" /\ f.exec = "ok"
                   /\ Entry(f) \in DOMAIN cache
                   /\ f.wrote = Tunables(f.op)[cache[Entry(f)].dec]
    /\ \A t \in Threads : \A i \in 2..Depth(t) :
          stack[t][i - 1].pc = "bench_wait"
              => /\ ~stack[t][i].real
                 /\ \A x \in ArgTensors(stack[t][i]) : x.buf \in SyntheticBufs

C15_Witness ==
    \E f \in TopFrames :
        /\ f.op = "reduce" /\ f.benched = 1 /\ f.pc = "done" /\ f.exec = "ok"
        /\ f.wrote # "none"
        /\ f.syn.input.buf = "synthetic(caller)" /\ f.syn.output.buf = "synthetic"
        /\ f.syn.input.dims = f.args.input.dims /\ f.args.input.buf = "caller"

\* the least number of blocks of BlockSize that cover n rows (or columns)
NeededCubes(n) ==
    CHOOSE c \in 0..n : c * BlockSize >= n /\ (c = 0 \/ (c - 1) * BlockSize < n)

\* the grid the output needs fits the device maximum in both dimensions
GridFits(out) ==
    /\ NeededCubes(out.dims[1]) <= MaxCubeCount
    /\ NeededCubes(out.dims[2]) <= MaxCubeCount

C17_ConvBiasFromKey ==
    /\ \A f \in Keyed :
          f.op = "conv_transpose2d" => (f.key.has_bias <=> f.args.bias)
    /\ \A f \in ConvBenched :
          /\ f.syn.bias <=> f.key.has_bias
          /\ \A b \in BOOLEAN :
                CreateTranspose2dInput(f.key, f.args.input, f.args.weights, b,
                                       f.args.groups).bias = f.key.has_bias

C17_Witness ==
    \E f \in ConvBenched :
        /\ f.args.bias /\ f.key.has_bias /\ f.syn.bias
        /\ f.pc = "dispatch" /\ f.benched = 1

\* C18: a matmul call with MatmulStrategy::Autotune whose execute reported
\* that all candidates failed returns Err(MatmulLaunchError::Unavailable),
\* and no kernel, the default Cube kernel included, has written its output.
C18_AutotuneFailureReturnsErr ==
    \A f \in TopFrames :
        /\ f.op = "matmul" /\ f.strategy = "Autotune"
        /\ f.pc = "done" /\ f.exec = "AllCandidatesFailed"
        => /\ f.ret = "Err(Unavailable)"
           /\ f.wrote = "none"

\* C19: the Reduce pass that sum_chained starts inside a Sum pass uses the
\* tuner of autotune_reduce: its entry is never the Sum entry, and the Sum
\* entry is not written while the nested call runs; every Sum execute that
\* started a pass and has returned has left the Sum entry of its key written,
\* by the one pass that was run for it.
C19_NestedTuningIsolated ==
    /\ \A e \in DOMAIN cache :
          /\ e[1][1] = "sum" => e[3].op = "Sum"
          /\ e[1][1] = "reduce" => e[3].op = "Reduce"
    /\ \A t \in Threads : \A i \in 2..Depth(t) :
          LET outer == stack[t][i - 1]
              inner == stack[t][i]
          IN  /\ outer.op = "sum" /\ inner.op = "reduce"
              /\ TunerOf(inner) # TunerOf(outer)
              /\ outer.pc = "bench_wait" => Entry(outer) \notin DOMAIN cache
              /\ inner.key # NoKey => Entry(inner) # Entry(outer)
    /\ \A f \in TopFrames :
          f.op = "sum" /\ f.benched = 1 /\ f.pc = "done"
              => /\ Entry(f) \in DOMAIN cache
                 /\ passes[PassKey(f)].first # Undecided
                 /\ passes[PassKey(f)].n = 1

====
